---- MODULE Spec2Model ----
(***************************************************************************)
(* The two a2a-foundry-agent samples: the AzureTokenAuth httpx adapter     *)
(* (the same class in both files) and the main() call sequence of          *)
(* basic_agent_a2a.py and agent_a2a_with_tools.py.                          *)
(*                                                                         *)
(* SpecAuth: an AzureTokenAuth built with any constructor arguments,       *)
(*           driven by an httpx client through its sync and async flows.   *)
(* Spec:     the two scripts, each external call split into its start and  *)
(*           its return / raise; send_message runs the async auth flow.    *)
(***************************************************************************)
EXTENDS Naturals, Sequences, FiniteSets, TLC

\* ------------------------------------------------------------------ bounds
MaxScopes == 2
MaxRequests == 2
MaxToolCalls == 2

\* ------------------------------------------------------------- value sets
None == "None"
NoHeader == "<absent>"
Scopes == {"scope_a", "scope_b"}
Tokens == {"tokA", "tokB"}
OldHeaders == {NoHeader, "Basic old"}
Responses == {"200", "401"}
Modes == {"sync", "async"}

ScopeLists == UNION {[1..n -> Scopes] : n \in 0..MaxScopes}

Resources == {"file", "vector_store", "search_agent", "agent", "thread", "message"}
EnvVars == {"PROJECT_ENDPOINT", "MODEL_DEPLOYMENT_NAME"}
RunStatuses == {"completed", "failed", "cancelled", "expired"}

Last(s) == s[Len(s)]
Front(s) == SubSeq(s, 1, Len(s) - 1)

VARIABLES
    auth,         \* the AzureTokenAuth instance: scopes, token_provider, async_token_provider
    request,      \* the httpx request the current flow works on
    flow,         \* the running auth flow generator: its mode, position and locals
    getTokenLog,  \* every get_token call made on a credential: provider, scope, result
    history,      \* the flows that have ended, in order
    outstanding,  \* external calls started and not yet returned, innermost last
    script,       \* which script runs: "basic", "tools", or "none" (adapter alone)
    env,          \* the environment variables that are set
    config,       \* agents_client._config: its credential_scopes
    pcs,          \* position of main() and of the tool function get_a2a_response
    exc,          \* the exception propagating in each of them, and where it was raised
    clients,      \* AgentsClient and httpx.AsyncClient: unopened / open / closed
    closeLog,     \* the clients closed, in order
    res,          \* the resources on the service: absent / live / deleted
    callLog,      \* every external call the script issued, in order
    runStatus,    \* run.status once runs.create_and_process returned
    toolCalls,    \* invocations of get_a2a_response so far
    a2aTarget,    \* the agent the last send_message addressed
    printed,      \* what the script printed, in order
    misuse        \* uses of a closed client or of a resource not live, as they happen

adapterVars == <<auth, request, flow, getTokenLog, history>>
scriptVars == <<script, env, config, pcs, exc, clients, closeLog, res, callLog, runStatus,
                toolCalls, a2aTarget, printed, misuse>>
vars == <<auth, request, flow, getTokenLog, history, outstanding, script, env, config, pcs,
          exc, clients, closeLog, res, callLog, runStatus, toolCalls, a2aTarget, printed, misuse>>

\* a call that was started without being awaited stays outstanding
NotAwaited(calls) == calls

\* every external call is awaited (or, in the sync flow, called directly):
\* the caller goes on only when the innermost outstanding call has ended
Returned(calls) == Front(calls)

\* ---------------------------------------------------------- AzureTokenAuth

\* __init__(self, scopes, token_provider=None, async_token_provider=None)
AzureTokenAuth(scopes, token_provider, async_token_provider) ==
    [token_provider |-> token_provider,
     async_token_provider |-> async_token_provider,
     scopes |-> scopes]

\* _raise_no_token_maybe(self, token, text): TRUE when it raises RuntimeError
raise_no_token_maybe(token) == token = None

\* a flow that checks and uses the other flow's credential
ProviderOfSwapped(a, mode) ==
    IF mode = "sync" THEN a.async_token_provider ELSE a.token_provider

\* the credential a flow uses: self.token_provider in sync_auth_flow,
\* self.async_token_provider in async_auth_flow
ProviderOf(a, mode) ==
    IF mode = "sync" THEN a.token_provider ELSE a.async_token_provider

\* the header without its scheme
BearerHeaderRaw(token) == token

\* f"Bearer {token.token}"
BearerHeader(token) == "Bearer " \o token

\* the headers replaced as a whole instead of one key being set
ReplaceHeaders(req, value) ==
    [req EXCEPT !.headers = [Authorization |-> value, Accept |-> NoHeader]]

\* request.headers["Authorization"] = value
SetAuthorization(req, value) == [req EXCEPT !.headers.Authorization = value]

\* a flow that fetches again and re-sends when the service answers 401
RetryOnUnauthorized(response) == IF response = "401" THEN "fetch" ELSE "done"

\* what the generator does when httpx sends the response back in after the
\* yield: there is no statement after "yield request", so it ends
AfterResponse(response) == "done"

NewRequest(h) ==
    [headers |-> [Authorization |-> h, Accept |-> "*/*"], content |-> "payload"]

IdleFlow ==
    [mode |-> "async", pc |-> "idle", token |-> None, calls |-> 0, yields |-> 0,
     before |-> NewRequest(NoHeader), sent |-> NewRequest(NoHeader)]

FlowEnded == {"done", "RuntimeError", "AttributeError", "IndexError", "CredentialError"}

StartedFlow(mode, req) ==
    [mode |-> mode, pc |-> "check", token |-> None, calls |-> 0, yields |-> 0,
     before |-> req, sent |-> NewRequest(NoHeader)]

\* the record of a flow that ended in `outcome`
Ended(f, outcome, req) ==
    [mode |-> f.mode, outcome |-> outcome, calls |-> f.calls, yields |-> f.yields,
     token |-> f.token, before |-> f.before, after |-> req]

\* first statement of both flows: self._raise_no_token_maybe(provider, text)
AuthFlowCheck ==
    /\ flow.pc = "check"
    /\ IF raise_no_token_maybe(ProviderOf(auth, flow.mode))
          THEN /\ flow' = [flow EXCEPT !.pc = "RuntimeError"]
               /\ history' = Append(history, Ended(flow, "RuntimeError", request))
          ELSE /\ flow' = [flow EXCEPT !.pc = "fetch"]
               /\ UNCHANGED history
    /\ UNCHANGED <<auth, request, getTokenLog, outstanding, scriptVars>>

\* provider.get_token(self.scopes[0]): the attribute lookup on the provider,
\* then the subscript, then the call
AuthFlowGetToken ==
    /\ flow.pc = "fetch"
    /\ IF ProviderOf(auth, flow.mode) = None
          THEN /\ flow' = [flow EXCEPT !.pc = "AttributeError"]
               /\ history' = Append(history, Ended(flow, "AttributeError", request))
               /\ UNCHANGED <<getTokenLog, outstanding>>
          ELSE IF Len(auth.scopes) = 0
          THEN /\ flow' = [flow EXCEPT !.pc = "IndexError"]
               /\ history' = Append(history, Ended(flow, "IndexError", request))
               /\ UNCHANGED <<getTokenLog, outstanding>>
          ELSE /\ flow' = [flow EXCEPT !.pc = "await_token", !.calls = @ + 1]
               /\ getTokenLog' = Append(getTokenLog,
                      [provider |-> ProviderOf(auth, flow.mode),
                       scope |-> auth.scopes[1], result |-> "pending"])
               /\ outstanding' = Append(outstanding, "get_token")
               /\ UNCHANGED history
    /\ UNCHANGED <<auth, request, scriptVars>>

\* the credential returns an access token
GetTokenReturn ==
    /\ flow.pc = "await_token"
    /\ \E tok \in Tokens :
          /\ flow' = [flow EXCEPT !.pc = "set", !.token = tok]
          /\ getTokenLog' = [getTokenLog EXCEPT ![Len(getTokenLog)].result = tok]
    /\ outstanding' = Returned(outstanding)
    /\ UNCHANGED <<auth, request, history, scriptVars>>

\* the credential raises (no credential available, network failure)
GetTokenRaise ==
    /\ flow.pc = "await_token"
    /\ flow' = [flow EXCEPT !.pc = "CredentialError"]
    /\ getTokenLog' = [getTokenLog EXCEPT ![Len(getTokenLog)].result = "raised"]
    /\ history' = Append(history, Ended(flow, "CredentialError", request))
    /\ outstanding' = Returned(outstanding)
    /\ UNCHANGED <<auth, request, scriptVars>>

\* request.headers["Authorization"] = f"Bearer {token.token}"
AuthFlowSetHeader ==
    /\ flow.pc = "set"
    /\ request' = SetAuthorization(request, BearerHeader(flow.token))
    /\ flow' = [flow EXCEPT !.pc = "yield"]
    /\ UNCHANGED <<auth, getTokenLog, history, outstanding, scriptVars>>

\* yield request: the request goes to the HTTP client, which sends it
AuthFlowYield ==
    /\ flow.pc = "yield"
    /\ flow' = [flow EXCEPT !.pc = "sent", !.yields = @ + 1, !.sent = request]
    /\ UNCHANGED <<auth, request, getTokenLog, history, outstanding, scriptVars>>

\* httpx sends the response into the generator
AuthFlowResume ==
    /\ flow.pc = "sent"
    /\ \E response \in Responses :
          /\ flow' = [flow EXCEPT !.pc = AfterResponse(response)]
          /\ history' = IF AfterResponse(response) = "done"
                           THEN Append(history, Ended(flow, "done", request))
                           ELSE history
    /\ UNCHANGED <<auth, request, getTokenLog, outstanding, scriptVars>>

AuthFlow ==
    \/ AuthFlowCheck
    \/ AuthFlowGetToken
    \/ GetTokenReturn
    \/ GetTokenRaise
    \/ AuthFlowSetHeader
    \/ AuthFlowYield
    \/ AuthFlowResume

\* an httpx client hands a request to the adapter: Client.send calls
\* sync_auth_flow, AsyncClient.send calls async_auth_flow
StartRequest ==
    /\ script = "none"
    /\ flow.pc \in FlowEnded \cup {"idle"}
    /\ Len(history) < MaxRequests
    /\ \E mode \in Modes, h \in OldHeaders :
          /\ request' = NewRequest(h)
          /\ flow' = StartedFlow(mode, NewRequest(h))
    /\ UNCHANGED <<auth, getTokenLog, history, outstanding, scriptVars>>

IdleScript ==
    /\ script = "none"
    /\ env = {}
    /\ config = [credential_scopes |-> <<>>]
    /\ pcs = [main |-> "done", tool |-> "idle"]
    /\ exc = [main |-> [type |-> "none", at |-> "none"],
              tool |-> [type |-> "none", at |-> "none"]]
    /\ clients = [agents |-> "unopened", httpx |-> "unopened"]
    /\ closeLog = <<>>
    /\ res = [r \in Resources |-> "absent"]
    /\ callLog = <<>>
    /\ runStatus = "none"
    /\ toolCalls = 0
    /\ a2aTarget = "none"
    /\ printed = <<>>
    /\ misuse = {}

InitAuth ==
    /\ \E s \in ScopeLists, tp \in {None, "TokenCredential"},
          atp \in {None, "AsyncTokenCredential"} :
          auth = AzureTokenAuth(s, tp, atp)
    /\ request = NewRequest(NoHeader)
    /\ flow = IdleFlow
    /\ getTokenLog = <<>>
    /\ history = <<>>
    /\ outstanding = <<>>
    /\ IdleScript

NextAuth == StartRequest \/ AuthFlow

SpecAuth == InitAuth /\ [][NextAuth]_vars

\* ---------------------------------------------------------------- the scripts

\* the keyword parameters of pydantic's BaseModel.model_dump, which is
\* keyword-only and takes no **kwargs
ModelDumpParameters ==
    {"mode", "include", "exclude", "context", "by_alias", "exclude_unset",
     "exclude_defaults", "exclude_none", "round_trip", "warnings", "fallback",
     "serialize_as_any"}

\* response.model_dump(mode='json', excluse_none=True)
ModelDumpKeywords == {"mode", "excluse_none"}

\* a call with a keyword the function does not have raises TypeError
ModelDumpRaises == ~(ModelDumpKeywords \subseteq ModelDumpParameters)

\* main() of basic_agent_a2a.py, statement by statement; enter_ / exit_ are
\* the two ends of an "async with" block
BasicMain ==
    <<"start", "enter_agents", "create_agent", "enter_httpx", "send_message",
      "model_dump", "delete_agent", "exit_httpx", "exit_agents", "done">>

\* a main() that cleans up before it runs the agent
ToolsMainDeleteFirst ==
    <<"start", "enter_agents", "files.upload_and_poll", "vector_stores.create_and_poll",
      "create_agent.search", "create_agent", "threads.create", "messages.create",
      "files.delete", "vector_stores.delete", "delete_agent.search",
      "runs.create_and_process", "print_status", "messages.list",
      "delete_agent", "exit_agents", "done">>

\* main() of agent_a2a_with_tools.py
ToolsMain ==
    <<"start", "enter_agents", "files.upload_and_poll", "vector_stores.create_and_poll",
      "create_agent.search", "create_agent", "threads.create", "messages.create",
      "runs.create_and_process", "print_status", "messages.list",
      "files.delete", "vector_stores.delete", "delete_agent.search", "delete_agent",
      "exit_agents", "done">>

\* get_a2a_response(message), the tool function get_function returns
ToolFunction == <<"enter_httpx", "send_message", "model_dump", "exit_httpx", "idle">>

Program(w) ==
    IF w = "tool" THEN ToolFunction
    ELSE IF script = "basic" THEN BasicMain ELSE ToolsMain

IndexOf(seq, x) == CHOOSE i \in 1..Len(seq) : seq[i] = x
Has(seq, x) == \E i \in 1..Len(seq) : seq[i] = x

Succ(w, label) == Program(w)[IndexOf(Program(w), label) + 1]

\* the statements inside the block that `enter` opens and `exit` closes
Block(w, enter, exit) ==
    IF Has(Program(w), enter) /\ Has(Program(w), exit)
       THEN {Program(w)[i] : i \in (IndexOf(Program(w), enter) + 1)
                                    ..(IndexOf(Program(w), exit) - 1)}
       ELSE {}

\* an exception that leaves every block without its exit running
HandlerNoCleanup(w, label) == IF w = "tool" THEN "idle" ELSE "done"

\* an exception that sends main() to its clean-up calls (a finally clause)
HandlerFinally(w, label) ==
    IF w = "tool" THEN (IF label \in Block(w, "enter_httpx", "exit_httpx")
                           THEN "exit_httpx" ELSE "idle")
    ELSE IF label = "start" THEN "done"
    ELSE IF script = "basic" THEN "delete_agent" ELSE "files.delete"

\* where an exception raised at `label` is caught: the exit of the innermost
\* "async with" block around it, or the end of the coroutine
Handler(w, label) ==
    IF label \in Block(w, "enter_httpx", "exit_httpx") THEN "exit_httpx"
    ELSE IF label \in Block(w, "enter_agents", "exit_agents") THEN "exit_agents"
    ELSE IF w = "tool" THEN "idle"
    ELSE "done"

NoExc == [type |-> "none", at |-> "none"]

\* the agent a2a_client addresses: agent.id in basic_agent_a2a,
\* agent_id=search_tool_agent.id in agent_a2a_with_tools
A2ATarget(s) == IF s = "basic" THEN "agent" ELSE "search_agent"

\* what an agent answers from: the file search agent has its vector store
\* and the file in it
Backing(r) == IF r = "search_agent" THEN {"search_agent", "vector_store", "file"} ELSE {r}

\* each call on the agent service: the client it goes through, what it
\* creates, uses and deletes, whether its arguments read
\* MODEL_DEPLOYMENT_NAME, and what is printed when it returned
OpInfo(op) ==
    CASE op = "files.upload_and_poll" ->
            [creates |-> {"file"}, uses |-> {}, deletes |-> {}, model |-> FALSE,
             prints |-> <<"Uploaded file">>]
      [] op = "vector_stores.create_and_poll" ->
            [creates |-> {"vector_store"}, uses |-> {"file"}, deletes |-> {},
             model |-> FALSE, prints |-> <<"Created vector store">>]
      [] op = "create_agent.search" ->
            [creates |-> {"search_agent"}, uses |-> {"vector_store"}, deletes |-> {},
             model |-> TRUE, prints |-> <<"Created agent for file search">>]
      [] op = "create_agent" ->
            [creates |-> {"agent"}, uses |-> {}, deletes |-> {}, model |-> TRUE,
             prints |-> <<"Created agent">>]
      [] op = "threads.create" ->
            [creates |-> {"thread"}, uses |-> {}, deletes |-> {}, model |-> FALSE,
             prints |-> <<"Created thread">>]
      [] op = "messages.create" ->
            [creates |-> {"message"}, uses |-> {"thread"}, deletes |-> {},
             model |-> FALSE, prints |-> <<"Created message">>]
      [] op = "runs.create_and_process" ->
            [creates |-> {}, uses |-> {"thread", "agent"}, deletes |-> {},
             model |-> FALSE, prints |-> <<>>]
      [] op = "messages.list" ->
            [creates |-> {}, uses |-> {"thread"}, deletes |-> {}, model |-> FALSE,
             prints |-> <<>>]
      [] op = "files.delete" ->
            [creates |-> {}, uses |-> {"file"}, deletes |-> {"file"}, model |-> FALSE,
             prints |-> <<"Deleted file">>]
      [] op = "vector_stores.delete" ->
            [creates |-> {}, uses |-> {"vector_store"}, deletes |-> {"vector_store"},
             model |-> FALSE, prints |-> <<"Deleted vector store">>]
      [] op = "delete_agent.search" ->
            [creates |-> {}, uses |-> {"search_agent"}, deletes |-> {"search_agent"},
             model |-> FALSE, prints |-> <<"Deleted agent">>]
      [] op = "delete_agent" ->
            [creates |-> {}, uses |-> {"agent"}, deletes |-> {"agent"}, model |-> FALSE,
             prints |-> <<"Deleted agent">>]

ServiceOps ==
    {"files.upload_and_poll", "vector_stores.create_and_poll", "create_agent.search",
     "create_agent", "threads.create", "messages.create", "runs.create_and_process",
     "messages.list", "files.delete", "vector_stores.delete", "delete_agent.search",
     "delete_agent"}

\* what goes wrong when a call is issued through `client` on `used`
Misuses(client, used) ==
    (IF clients[client] # "open" THEN {"closed_client"} ELSE {})
        \cup {<<"not_live", r>> : r \in {u \in used : res[u] # "live"}}

\* a retry of the run when it failed
AfterRunRetry(status) ==
    IF status = "failed" THEN "runs.create_and_process" ELSE "print_status"

\* the statement after "run = await agents_client.runs.create_and_process(...)"
AfterRun(status) == "print_status"

\* print(f"Run finished with status: {run.status}") and, for a failed run,
\* print(f"Run failed: {run.last_error}")
StatusLines(status) ==
    <<"Run finished">> \o (IF status = "failed" THEN <<"Run failed">> ELSE <<>>)

Raise(w, type, at) ==
    /\ pcs' = [pcs EXCEPT ![w] = Handler(w, at)]
    /\ exc' = [exc EXCEPT ![w] = [type |-> type, at |-> at]]

\* creds = DefaultAzureCredential(); endpoint = os.environ["PROJECT_ENDPOINT"]
MainStart ==
    /\ pcs.main = "start"
    /\ IF "PROJECT_ENDPOINT" \in env
          THEN /\ pcs' = [pcs EXCEPT !.main = Succ("main", "start")]
               /\ UNCHANGED exc
          ELSE Raise("main", "KeyError", "start")
    /\ UNCHANGED <<adapterVars, outstanding, script, env, config, clients, closeLog,
                   res, callLog, runStatus, toolCalls, a2aTarget, printed, misuse>>

\* async with AgentsClient(endpoint=endpoint, credential=creds) as agents_client
EnterAgents ==
    /\ pcs.main = "enter_agents"
    /\ clients' = [clients EXCEPT !.agents = "open"]
    /\ pcs' = [pcs EXCEPT !.main = Succ("main", "enter_agents")]
    /\ UNCHANGED <<adapterVars, outstanding, script, env, config, exc, closeLog,
                   res, callLog, runStatus, toolCalls, a2aTarget, printed, misuse>>

\* main() reaches an "await agents_client.<op>(...)": the arguments are
\* evaluated and the call is issued
CallStart ==
    /\ pcs.main \in ServiceOps
    /\ ~Has(outstanding, pcs.main)
    /\ LET op == pcs.main IN
       IF OpInfo(op).model /\ "MODEL_DEPLOYMENT_NAME" \notin env
          THEN /\ Raise("main", "KeyError", op)
               /\ UNCHANGED <<outstanding, callLog, misuse>>
          ELSE /\ outstanding' = Append(outstanding, op)
               /\ callLog' = Append(callLog, op)
               /\ misuse' = misuse \cup Misuses("agents", OpInfo(op).uses)
               /\ UNCHANGED <<pcs, exc>>
    /\ UNCHANGED <<adapterVars, script, env, config, clients, closeLog, res, runStatus,
                   toolCalls, a2aTarget, printed>>

\* the call returns: main() prints its line and goes on
CallReturn ==
    /\ outstanding # <<>>
    /\ Last(outstanding) = pcs.main
    /\ pcs.main \in ServiceOps \ {"runs.create_and_process"}
    /\ LET op == pcs.main IN
       /\ res' = [r \in Resources |->
                     IF r \in OpInfo(op).deletes THEN "deleted"
                     ELSE IF r \in OpInfo(op).creates THEN "live"
                     ELSE res[r]]
       /\ printed' = printed \o OpInfo(op).prints
       /\ pcs' = [pcs EXCEPT !.main = Succ("main", op)]
    /\ outstanding' = Returned(outstanding)
    /\ UNCHANGED <<adapterVars, script, env, config, exc, clients, closeLog, callLog,
                   runStatus, toolCalls, a2aTarget, misuse>>

\* the call raises (service error, rate limit, network failure)
CallRaise ==
    /\ outstanding # <<>>
    /\ Last(outstanding) = pcs.main
    /\ pcs.main \in ServiceOps
    /\ pcs.tool = "idle"
    /\ Raise("main", "ServiceError", pcs.main)
    /\ outstanding' = Returned(outstanding)
    /\ UNCHANGED <<adapterVars, script, env, config, clients, closeLog, res, callLog,
                   runStatus, toolCalls, a2aTarget, printed, misuse>>

\* while runs.create_and_process is outstanding, the toolset enabled by
\* enable_auto_function_calls invokes get_a2a_response for a tool call
RunInvokeTool ==
    /\ outstanding # <<>>
    /\ Last(outstanding) = "runs.create_and_process"
    /\ pcs.tool = "idle"
    /\ toolCalls < MaxToolCalls
    /\ toolCalls' = toolCalls + 1
    /\ pcs' = [pcs EXCEPT !.tool = "enter_httpx"]
    /\ exc' = [exc EXCEPT !.tool = NoExc]
    /\ UNCHANGED <<adapterVars, outstanding, script, env, config, clients, closeLog,
                   res, callLog, runStatus, a2aTarget, printed, misuse>>

\* runs.create_and_process returns the run in a terminal status
RunReturn ==
    /\ outstanding # <<>>
    /\ Last(outstanding) = "runs.create_and_process"
    /\ pcs.main = "runs.create_and_process"
    /\ pcs.tool = "idle"
    /\ \E status \in RunStatuses :
          /\ runStatus' = status
          /\ pcs' = [pcs EXCEPT !.main = AfterRun(status)]
    /\ outstanding' = Returned(outstanding)
    /\ UNCHANGED <<adapterVars, script, env, config, exc, clients, closeLog, res,
                   callLog, toolCalls, a2aTarget, printed, misuse>>

\* the two prints after the run
PrintStatus ==
    /\ pcs.main = "print_status"
    /\ printed' = printed \o StatusLines(runStatus)
    /\ pcs' = [pcs EXCEPT !.main = Succ("main", "print_status")]
    /\ UNCHANGED <<adapterVars, outstanding, script, env, config, exc, clients,
                   closeLog, res, callLog, runStatus, toolCalls, a2aTarget, misuse>>

\* async with httpx.AsyncClient(auth=AzureTokenAuth(scopes=...,
\* async_token_provider=creds)) as httpx_client, then A2AClient(...) and the
\* request payload
EnterHttpx(w) ==
    /\ pcs[w] = "enter_httpx"
    /\ auth' = AzureTokenAuth(config.credential_scopes, None, "AsyncTokenCredential")
    /\ clients' = [clients EXCEPT !.httpx = "open"]
    /\ pcs' = [pcs EXCEPT ![w] = Succ(w, "enter_httpx")]
    /\ UNCHANGED <<request, flow, getTokenLog, history, outstanding, script, env,
                   config, exc, closeLog, res, callLog, runStatus, toolCalls,
                   a2aTarget, printed, misuse>>

\* response = await a2a_client.send_message(request): the HTTP client builds
\* the request and starts the async auth flow on it
SendMessageCall(w) ==
    /\ pcs[w] = "send_message"
    /\ ~Has(outstanding, "send_message")
    /\ outstanding' = Append(outstanding, "send_message")
    /\ callLog' = Append(callLog, "send_message")
    /\ a2aTarget' = A2ATarget(script)
    /\ misuse' = misuse \cup Misuses("httpx", Backing(A2ATarget(script)))
    /\ request' = NewRequest(NoHeader)
    /\ flow' = StartedFlow("async", NewRequest(NoHeader))
    /\ UNCHANGED <<auth, getTokenLog, history, script, env, config, pcs, exc, clients,
                   closeLog, res, runStatus, toolCalls, printed>>

\* the flow ended after its yield and send_message returns the response
SendMessageReturn(w) ==
    /\ pcs[w] = "send_message"
    /\ outstanding # <<>>
    /\ Last(outstanding) = "send_message"
    /\ flow.pc = "done"
    /\ pcs' = [pcs EXCEPT ![w] = Succ(w, "send_message")]
    /\ outstanding' = Returned(outstanding)
    /\ UNCHANGED <<adapterVars, script, env, config, exc, clients, closeLog, res,
                   callLog, runStatus, toolCalls, a2aTarget, printed, misuse>>

\* send_message raises: the exception of the auth flow, or an HTTP or
\* JSON error of the answer
SendMessageRaise(w) ==
    /\ pcs[w] = "send_message"
    /\ outstanding # <<>>
    /\ Last(outstanding) = "send_message"
    /\ flow.pc \in FlowEnded
    /\ Raise(w, IF flow.pc = "done" THEN "A2AClientError" ELSE flow.pc, "send_message")
    /\ outstanding' = Returned(outstanding)
    /\ UNCHANGED <<adapterVars, script, env, config, clients, closeLog, res, callLog,
                   runStatus, toolCalls, a2aTarget, printed, misuse>>

\* response.model_dump(mode='json', excluse_none=True), printed by
\* basic_agent_a2a and returned by get_a2a_response
ModelDump(w) ==
    /\ pcs[w] = "model_dump"
    /\ IF ModelDumpRaises
          THEN /\ Raise(w, "TypeError", "model_dump")
               /\ UNCHANGED printed
          ELSE /\ pcs' = [pcs EXCEPT ![w] = Succ(w, "model_dump")]
               /\ printed' = IF w = "main" THEN Append(printed, "response") ELSE printed
               /\ UNCHANGED exc
    /\ UNCHANGED <<adapterVars, outstanding, script, env, config, clients, closeLog,
                   res, callLog, runStatus, toolCalls, a2aTarget, misuse>>

\* the end of the "async with httpx.AsyncClient" block, reached normally or
\* by an exception: the client is closed and the exception goes on
ExitHttpx(w) ==
    /\ pcs[w] = "exit_httpx"
    /\ clients' = [clients EXCEPT !.httpx = "closed"]
    /\ closeLog' = Append(closeLog, "httpx")
    /\ pcs' = [pcs EXCEPT ![w] = IF exc[w] = NoExc THEN Succ(w, "exit_httpx")
                                  ELSE Handler(w, "exit_httpx")]
    /\ UNCHANGED <<adapterVars, outstanding, script, env, config, exc, res, callLog,
                   runStatus, toolCalls, a2aTarget, printed, misuse>>

\* the end of the "async with AgentsClient" block: main() returns or the
\* exception leaves it
ExitAgents ==
    /\ pcs.main = "exit_agents"
    /\ clients' = [clients EXCEPT !.agents = "closed"]
    /\ closeLog' = Append(closeLog, "agents")
    /\ pcs' = [pcs EXCEPT !.main = IF exc.main = NoExc THEN Succ("main", "exit_agents")
                                    ELSE Handler("main", "exit_agents")]
    /\ UNCHANGED <<adapterVars, outstanding, script, env, config, exc, res, callLog,
                   runStatus, toolCalls, a2aTarget, printed, misuse>>

Init ==
    /\ script \in {"basic", "tools"}
    /\ env \in SUBSET EnvVars
    /\ \E s \in ScopeLists \ {<<>>} : config = [credential_scopes |-> s]
    /\ pcs = [main |-> "start", tool |-> "idle"]
    /\ exc = [main |-> NoExc, tool |-> NoExc]
    /\ clients = [agents |-> "unopened", httpx |-> "unopened"]
    /\ closeLog = <<>>
    /\ res = [r \in Resources |-> "absent"]
    /\ callLog = <<>>
    /\ runStatus = "none"
    /\ toolCalls = 0
    /\ a2aTarget = "none"
    /\ printed = <<>>
    /\ misuse = {}
    /\ auth = AzureTokenAuth(<<>>, None, None)
    /\ request = NewRequest(NoHeader)
    /\ flow = IdleFlow
    /\ getTokenLog = <<>>
    /\ history = <<>>
    /\ outstanding = <<>>

Next ==
    \/ MainStart
    \/ EnterAgents
    \/ CallStart
    \/ CallReturn
    \/ CallRaise
    \/ RunInvokeTool
    \/ RunReturn
    \/ PrintStatus
    \/ \E w \in {"main", "tool"} : EnterHttpx(w)
    \/ \E w \in {"main", "tool"} : SendMessageCall(w)
    \/ \E w \in {"main", "tool"} : SendMessageReturn(w)
    \/ \E w \in {"main", "tool"} : SendMessageRaise(w)
    \/ \E w \in {"main", "tool"} : ModelDump(w)
    \/ \E w \in {"main", "tool"} : ExitHttpx(w)
    \/ ExitAgents
    \/ AuthFlow

Spec == Init /\ [][Next]_vars

\* ------------------------------------------------- properties of the adapter

RECURSIVE SumCalls(_)
SumCalls(hs) == IF hs = <<>> THEN 0 ELSE Last(hs).calls + SumCalls(Front(hs))

CredentialPresent(mode) ==
    (mode = "sync" /\ auth.token_provider # None)
        \/ (mode = "async" /\ auth.async_token_provider # None)

\* the ended flows whose matching credential was supplied
WithCredential == SelectSeq(history, LAMBDA h : CredentialPresent(h.mode))

\* C1: a flow raises the RuntimeError configuration error exactly when its own
\* credential (token_provider for the sync flow, async_token_provider for the
\* async flow) is None, whatever the other credential and scopes are; a flow
\* that raised it fetched no token, left the request as it was and never
\* yielded it.
C1_ConfigErrorIffNoProvider ==
    /\ \A i \in 1..Len(history) :
          LET h == history[i] IN
          /\ (h.outcome = "RuntimeError") <=> ~CredentialPresent(h.mode)
          /\ h.outcome = "RuntimeError" =>
                h.calls = 0 /\ h.yields = 0 /\ h.after = h.before
    /\ flow.pc \notin {"idle", "check"} =>
          ((flow.pc = "RuntimeError") <=> ~CredentialPresent(flow.mode))
    /\ flow.pc = "RuntimeError" =>
          /\ Len(getTokenLog) = SumCalls(Front(history))
          /\ request = flow.before
          /\ flow.yields = 0

\* the sync flow raised although the async credential was supplied and scopes
\* is empty
C1_Witness ==
    /\ flow.pc = "RuntimeError"
    /\ flow.mode = "sync"
    /\ auth.async_token_provider # None
    /\ auth.scopes = <<>>
    /\ flow.before.headers.Authorization = "Basic old"

\* C2: a request is yielded only after get_token(scopes[0]) returned and the
\* Authorization header was set to "Bearer " + that token, whatever header
\* the request had; no other scope is ever passed to a credential.
C2_BearerBeforeYield ==
    /\ \A i \in 1..Len(getTokenLog) :
          /\ Len(auth.scopes) >= 1
          /\ getTokenLog[i].scope = auth.scopes[1]
    /\ flow.yields > 0 =>
          /\ getTokenLog # <<>>
          /\ Last(getTokenLog).result \in Tokens
          /\ flow.sent.headers.Authorization = "Bearer " \o Last(getTokenLog).result
          /\ flow.sent.headers.Authorization # flow.before.headers.Authorization
    /\ flow.pc \in {"yield", "sent"} =>
          request.headers.Authorization = "Bearer " \o Last(getTokenLog).result
    /\ \A i \in 1..Len(history) :
          history[i].yields > 0 =>
              history[i].after.headers.Authorization = "Bearer " \o history[i].token

\* a request that carried another Authorization header has been yielded by a
\* flow whose scopes list holds two different scopes
C2_Witness ==
    /\ flow.pc = "sent"
    /\ flow.before.headers.Authorization = "Basic old"
    /\ Len(auth.scopes) = 2
    /\ auth.scopes[1] # auth.scopes[2]
    /\ flow.sent.headers.Authorization = "Bearer tokB"

\* C9 as stated: after n requests went through a flow whose credential is
\* present, get_token was called n times and every one of them was yielded
\* once.
C9_AsStated ==
    /\ Len(WithCredential) = SumCalls(WithCredential)
    /\ \A i \in 1..Len(WithCredential) : WithCredential[i].yields = 1

\* C9 amended: no token is cached or reused and nothing is retried. A flow
\* calls get_token at most once and yields at most once; with its credential
\* present and scopes not empty it calls get_token exactly once; it yields the
\* request exactly once when that call returned a token and not at all when
\* the call raised or scopes is empty; after the yield it ends, whatever the
\* response.
C9_FreshTokenNoRetry ==
    /\ flow.calls <= 1 /\ flow.yields <= 1
    /\ flow.yields = 1 => flow.calls = 1 /\ flow.token \in Tokens
    /\ \A i \in 1..Len(history) :
          LET h == history[i] IN
          /\ h.calls <= 1 /\ h.yields <= 1
          /\ (CredentialPresent(h.mode) /\ auth.scopes # <<>>) <=> h.calls = 1
          /\ (h.calls = 1 /\ h.token \in Tokens) <=> h.yields = 1
          /\ h.yields = 1 <=> h.outcome = "done"
    /\ Len(getTokenLog) = SumCalls(history)
          + (IF flow.pc \in FlowEnded THEN 0 ELSE flow.calls)
    /\ flow.pc \in FlowEnded \cup {"idle", "check", "fetch", "await_token", "set",
                                   "yield", "sent"}

\* two requests went through, each with its own get_token call, the second
\* after the first was answered
C9_Witness ==
    /\ Len(history) = 2
    /\ history[1].outcome = "done" /\ history[2].outcome = "done"
    /\ Len(getTokenLog) = 2
    /\ getTokenLog[1].result # getTokenLog[2].result

\* what a flow comes to, from the constructor arguments and the credential's
\* answer alone (None: no token was returned)
ExpectedOutcome(mode, token) ==
    IF ~CredentialPresent(mode) THEN "RuntimeError"
    ELSE IF auth.scopes = <<>> THEN "IndexError"
    ELSE IF token = None THEN "CredentialError"
    ELSE "done"

C10_Frame ==
    /\ auth' = auth
    /\ flow.pc \notin FlowEnded \cup {"idle"} =>
          /\ request'.content = request.content
          /\ request'.headers.Accept = request.headers.Accept
          /\ flow'.before = flow.before

C10_Outcomes ==
    \A i \in 1..Len(history) :
        LET h == history[i] IN
        /\ h.outcome = ExpectedOutcome(h.mode, h.token)
        /\ h.after = IF h.outcome = "done"
                        THEN [h.before EXCEPT !.headers.Authorization = "Bearer " \o h.token]
                        ELSE h.before

\* C10: no flow, successful or failing, changes scopes, token_provider or
\* async_token_provider; a flow changes nothing of its request but the
\* Authorization header; and how a flow ends, with which header, is a function
\* of the constructor arguments and of the token the credential returned for
\* that request.
C10_NoAdapterState == [][C10_Frame]_vars /\ []C10_Outcomes

\* a failing flow was followed by a successful one on the same adapter
C10_Witness ==
    /\ Len(history) = 2
    /\ history[1].outcome = "CredentialError"
    /\ history[2].outcome = "done"
    /\ history[2].before.headers.Authorization = "Basic old"

\* ------------------------------------------------- properties of the scripts

Count(seq, x) == Cardinality({i \in 1..Len(seq) : seq[i] = x})

Finished == pcs.main = "done"
ReturnedNormally == Finished /\ exc.main = NoExc
Raised == exc.main # NoExc

\* the calls main() of agent_a2a_with_tools makes, in source order
ToolsMainOrder ==
    <<"files.upload_and_poll", "vector_stores.create_and_poll", "create_agent.search",
      "create_agent", "threads.create", "messages.create", "runs.create_and_process",
      "messages.list", "files.delete", "vector_stores.delete", "delete_agent.search",
      "delete_agent">>

DeleteOps == {"files.delete", "vector_stores.delete", "delete_agent.search", "delete_agent"}

CleanUp ==
    <<"messages.list", "files.delete", "vector_stores.delete", "delete_agent.search",
      "delete_agent">>

IsPrefix(s, t) == Len(s) <= Len(t) /\ s = SubSeq(t, 1, Len(s))

\* the calls main() itself issued on the agents client, in order
MainCalls == SelectSeq(callLog, LAMBDA op : op # "send_message")

\* the calls main() issued after its (first) runs.create_and_process
AfterTheRun ==
    IF Has(MainCalls, "runs.create_and_process")
       THEN SubSeq(MainCalls, IndexOf(MainCalls, "runs.create_and_process") + 1,
                   Len(MainCalls))
       ELSE <<>>

\* C3: when main() has terminated, normally or by an exception raised at any
\* step, no client is left open; a tool invocation that ended has closed its
\* HTTP client; the HTTP client is closed before the agents client is; no
\* call is issued through a client that is not open.
C3_ClientsReleased ==
    /\ Finished => clients.agents # "open" /\ clients.httpx # "open"
    /\ Finished /\ callLog # <<>> => clients.agents = "closed"
    /\ script = "tools" /\ pcs.tool = "idle" => clients.httpx # "open"
    /\ pcs.main = "exit_agents" /\ Has(callLog, "send_message") =>
          clients.httpx = "closed"
    /\ clients.agents = "closed" => clients.httpx # "open"
    /\ script = "basic" => IsPrefix(closeLog, <<"httpx", "agents">>)
                              \/ closeLog = <<"agents">>
    /\ Count(closeLog, "agents") <= 1
    /\ "closed_client" \notin misuse

\* basic_agent_a2a ended by the exception of the response dump with both
\* clients closed, the HTTP client first
C3_Witness ==
    /\ script = "basic"
    /\ Finished
    /\ exc.main = [type |-> "TypeError", at |-> "model_dump"]
    /\ closeLog = <<"httpx", "agents">>

\* C4: runs.create_and_process is invoked at most once, exactly once in an
\* execution that got to it; whatever status it returned, main() goes on with
\* messages.list and the four deletes in the same order, and the status only
\* decides whether "Run failed" is printed.
C4_OneRunNoRecovery ==
    /\ Count(callLog, "runs.create_and_process") <= 1
    /\ runStatus # "none" =>
          /\ Count(callLog, "runs.create_and_process") = 1
          /\ IsPrefix(AfterTheRun, CleanUp)
    /\ script = "tools" /\ ReturnedNormally =>
          /\ runStatus \in RunStatuses
          /\ AfterTheRun = CleanUp
    /\ Has(printed, "Run failed") <=>
          (runStatus = "failed" /\ pcs.main # "print_status")
    /\ Count(printed, "Run failed") <= 1

\* a failed run, with two tool invocations in it, was followed by the listing
\* and the four deletes and main() returned
C4_Witness ==
    /\ script = "tools"
    /\ ReturnedNormally
    /\ runStatus = "failed"
    /\ toolCalls = 2
    /\ AfterTheRun = CleanUp

\* C5 as stated: never two external calls outstanding at the same time.
C5_AsStated == Len(outstanding) <= 1

\* C5 amended: the outstanding calls are always one chain of nested calls,
\* never two side by side: get_token is issued inside send_message (by the auth
\* flow the HTTP client runs), and in agent_a2a_with_tools send_message is
\* issued inside runs.create_and_process (by the tool function); every other
\* call is issued with nothing outstanding.
C5_OneNestedChain ==
    /\ Len(outstanding) <= (IF script = "tools" THEN 3 ELSE 2)
    /\ \A i \in 1..Len(outstanding) :
          CASE outstanding[i] = "get_token" ->
                  i > 1 /\ outstanding[i - 1] = "send_message"
            [] outstanding[i] = "send_message" ->
                  IF script = "tools"
                     THEN i = 2 /\ outstanding[1] = "runs.create_and_process"
                     ELSE i = 1
            [] OTHER -> i = 1

\* the token fetch of a tool invocation is outstanding inside send_message
\* inside runs.create_and_process
C5_Witness == outstanding = <<"runs.create_and_process", "send_message", "get_token">>

\* the exceptions that come from outside the script: a missing environment
\* variable, a failing service call, credential or a2a request
ExternalFailures == {"KeyError", "ServiceError", "CredentialError", "A2AClientError"}

C7_NoCleanupAfterRaise ==
    /\ script = "basic" /\ Has(callLog, "delete_agent") =>
          /\ Has(printed, "response")
          /\ flow.pc = "done"
    /\ script = "basic" /\ exc.main.at \in {"send_message", "model_dump"} =>
          /\ res.agent = "live"
          /\ ~Has(callLog, "delete_agent")
    /\ script = "tools" /\ Raised /\ exc.main.at \notin DeleteOps =>
          /\ \A r \in Resources : res[r] # "deleted"
          /\ \A op \in DeleteOps : ~Has(callLog, op)
    /\ script = "tools" /\ Raised /\ exc.main.at \in DeleteOps =>
          /\ Last(MainCalls) = exc.main.at
          /\ res[CHOOSE r \in Resources : r \in OpInfo(exc.main.at).deletes] = "live"
          /\ \A i \in 1..Len(ToolsMainOrder) :
                i > IndexOf(ToolsMainOrder, exc.main.at) =>
                    ~Has(callLog, ToolsMainOrder[i])

\* agent_a2a_with_tools ended by an exception of vector_stores.delete: the
\* file is deleted, the vector store and both agents are left
C7_Witness ==
    /\ script = "tools"
    /\ Finished
    /\ exc.main.at = "vector_stores.delete"
    /\ res.file = "deleted"
    /\ res.vector_store = "live" /\ res.search_agent = "live" /\ res.agent = "live"

\* C8: get_a2a_response runs only while runs.create_and_process is
\* outstanding and addresses the file search agent; that agent, its vector
\* store and its file exist from before the function-calling agent and the run
\* until after the run returned, so a tool invocation never addresses
\* something not yet created or already deleted.
C8_ToolTargetsLiveAgent ==
    /\ pcs.tool # "idle" =>
          /\ script = "tools"
          /\ outstanding # <<>> /\ outstanding[1] = "runs.create_and_process"
          /\ runStatus = "none"
          /\ \A r \in {"search_agent", "vector_store", "file"} : res[r] = "live"
    /\ script = "tools" /\ a2aTarget # "none" => a2aTarget = "search_agent"
    /\ script = "tools" =>
          \A r \in {"search_agent", "vector_store", "file"} :
              /\ <<"not_live", r>> \notin misuse
              /\ res.agent # "absent" => res[r] # "absent"
              /\ res[r] = "deleted" => runStatus # "none"
    /\ script = "tools" /\ Has(callLog, "send_message") =>
          Has(callLog, "runs.create_and_process")

\* the second tool invocation has its request on the wire
C8_Witness ==
    /\ script = "tools"
    /\ toolCalls = 2
    /\ pcs.tool = "send_message"
    /\ flow.pc = "sent"
    /\ a2aTarget = "search_agent"

====
